---- MODULE Spec2Model ----
(***************************************************************************)
(* bruter (src/src/main.rs): a pool of worker threads that repeatedly run  *)
(* ssh-keygen into a per-worker slot of a temporary directory, test the    *)
(* public key against the search terms, and hand the first matching slot   *)
(* to the main thread, which copies the key pair out.                      *)
(*                                                                         *)
(* Text is a sequence of one-character strings.  A worker thread that      *)
(* panics unwinds and ends alone (Rust's default panic strategy); the      *)
(* process ends when main returns, exits or panics.                        *)
(***************************************************************************)
EXTENDS Integers, Sequences, FiniteSets, TLC

\* ------------------------------------------------------------------ bounds
\* num_cpus::get() of the modelled host.
NumWorkers == 2
\* Key Generator invocations explored while the search is still open.
MaxGens == 4
\* --print-every ranges over 1..MaxInterval (the configuration's positive
\* interval; clap would also accept 0, for which line 123 divides by zero).
MaxInterval == 2

Workers == 0 .. (NumWorkers - 1)

None == "None"
NoFile == "NoFile"
\* No slot index: the value of `worker` before the receive, and of the
\* mutex's owner while it is free.
NoWorker == NumWorkers

\* ------------------------------------------------------------- characters
AsciiLower == {"a", "b"}
AsciiUpper == {"A", "B"}
AsciiOther == {"-", ",", " "}
\* U+00E9 is alphanumeric and not ASCII; U+20AC is neither.
NonAsciiAlnum == {"U+00E9"}
NonAsciiOther == {"U+20AC"}

is_ascii_char(c) == c \in AsciiLower \cup AsciiUpper \cup AsciiOther

is_alphanumeric(c) == c \in AsciiLower \cup AsciiUpper \cup NonAsciiAlnum

char_to_ascii_lowercase(c) ==
    CASE c = "A" -> "a"
      [] c = "B" -> "b"
      [] OTHER -> c

to_ascii_lowercase(s) == [i \in 1 .. Len(s) |-> char_to_ascii_lowercase(s[i])]

is_ascii(s) == \A i \in 1 .. Len(s) : is_ascii_char(s[i])

\* str::split(sep): the pieces between separators; one more piece than there
\* are separators, so the empty text splits into one empty piece.
RECURSIVE split(_, _)
split(s, sep) ==
    IF \A i \in 1 .. Len(s) : s[i] # sep
    THEN << s >>
    ELSE LET p == CHOOSE i \in 1 .. Len(s) :
                      s[i] = sep /\ \A j \in 1 .. (i - 1) : s[j] # sep
         IN  << SubSeq(s, 1, p - 1) >> \o split(SubSeq(s, p + 1, Len(s)), sep)

\* str::contains(term): term occurs in word as a contiguous run.
contains(word, term) ==
    \E i \in 0 .. (Len(word) - Len(term)) :
        \A j \in 1 .. Len(term) : word[i + j] = term[j]

\* ---------------------------------------------------------- configuration
\* main's two checks of --search (lines 135-147).
NoTerms(search) == Len(split(search, ",")) = 0

BadTerm(item) ==
    ~is_ascii(item) /\ \E i \in 1 .. Len(item) : ~is_alphanumeric(item[i])

Rejected(search) ==
    \/ NoTerms(search)
    \/ \E n \in 1 .. Len(split(search, ",")) : BadTerm(split(search, ",")[n])

LowerTerms(search) ==
    LET items == split(search, ",")
    IN  [n \in 1 .. Len(items) |-> to_ascii_lowercase(items[n])]

\* The --search values explored.
SearchInputs ==
    { << >>,
      << "a" >>,
      << "B", ",", "b", "a" >>,
      << "-" >>,
      << "U+00E9" >>,
      << "U+20AC" >>,
      << "a", ",", "U+20AC", "-" >> }

\* ------------------------------------------------------------ the generator
\* The public key texts ssh-keygen can leave in <slot>.pub: key 1 and key 2
\* have three fields, key 3 carries a comment with a space (four fields).
Keys == {"k1", "k2", "k3"}

KeyTexts ==
    [k \in Keys |->
        CASE k = "k1" -> << "a", " ", "A", "b", " ", "a" >>
          [] k = "k2" -> << "a", " ", "B", "b", " ", "a" >>
          [] k = "k3" -> << "a", " ", "A", "b", " ", "a", " ", "b" >>]

Fields(content) == split(content, " ")

WellFormed(content) == Len(Fields(content)) = 3

\* Variant: the second field is compared as it stands.
WordRaw(content) == Fields(content)[2]

\* Lines 104-107: the second field, lowercased.
Word(content) == to_ascii_lowercase(Fields(content)[2])

Matches(content, terms) ==
    \E n \in 1 .. Len(terms) : contains(Word(content), terms[n])

\* ------------------------------------------------------------------- state
VARIABLES
    args,          \* Args: [search, print_every]
    search_terms,  \* main's search_terms, set once the configuration is accepted
    cpc,           \* main's position
    exit,          \* "running", or how the process ended
    workspace,     \* the TempDir: "absent", "present" or "removed"
    files,         \* per slot: the key held by <slot> and by <slot>.pub
    pc,            \* each worker thread's position in guess
    finished,      \* the RwLock<bool>
    chan,          \* the mpsc channel's queue
    counter,       \* State.counter
    holder,        \* the owner of the Mutex<State>
    loaded,        \* per worker: the counter value read for `+= 1`
    reports,       \* progress lines printed by workers
    final_reports, \* progress lines printed by main
    worker,        \* main's `worker`, the received slot index
    output,        \* the key held by <output> and by <output>.pub
    probe,         \* a text put to the match test: [text, verdict]
    stubCalls,     \* per slot: invocations a generator stub has served
    \* history
    gens,          \* ssh-keygen invocations so far
    gensAfter,     \* per worker: invocations begun while finished was true
    matchedKey,    \* per worker: the key its test matched
    sent,          \* every index sent on the channel, in order
    writes,        \* per worker: writes of `true` to the flag
    recorded,      \* completed `counter += 1` steps
    copySrc        \* the slots main has copied from

vars ==
    << args, probe, stubCalls,
       search_terms, cpc, exit, workspace, files, pc, finished, chan,
       counter, holder, loaded, reports, final_reports, worker, output,
       gens, gensAfter, matchedKey, sent, writes, recorded, copySrc >>

mainVars ==
    << args, probe,
       search_terms, cpc, exit, workspace, worker, output,
       final_reports, copySrc >>

EmptySlot == [priv |-> NoFile, pub |-> NoFile]

\* The command lines explored: every search with --print-every 1, and the
\* search "a" (some keys match it, some do not) with every interval.
Configs ==
    { a \in [search : SearchInputs, print_every : 1 .. MaxInterval] :
        a.search = << "a" >> \/ a.print_every = 1 }

\* No text has been put to the match test.
Unprobed == [text |-> << >>, verdict |-> "Untested"]

\* The program's state when main is entered.
Constructed ==
    /\ search_terms = << >>
    /\ cpc = "Parse"
    /\ exit = "running"
    /\ workspace = "absent"
    /\ files = [w \in Workers |-> EmptySlot]
    /\ pc = [w \in Workers |-> "Unspawned"]
    /\ finished = FALSE
    /\ chan = << >>
    /\ counter = 0
    /\ holder = NoWorker
    /\ loaded = [w \in Workers |-> 0]
    /\ reports = 0
    /\ final_reports = 0
    /\ worker = NoWorker
    /\ output = EmptySlot
    /\ gens = 0
    /\ gensAfter = [w \in Workers |-> 0]
    /\ matchedKey = [w \in Workers |-> None]
    /\ sent = << >>
    /\ recorded = 0
    /\ copySrc = {}
    /\ writes = [w \in Workers |-> 0]
    /\ stubCalls = [w \in Workers |-> 0]

Init ==
    /\ args \in Configs
    /\ probe = Unprobed
    /\ Constructed

\* A thread is alive from its spawn until it returns or panics; while alive it
\* holds its clone of every Arc.
Ended(w) == pc[w] \in {"Unspawned", "Stopped", "Panicked"}

Running(w) == exit = "running" /\ ~Ended(w)

\* ----------------------------------------------------------------- workers
\* Variant: every worker names slot 0.
SlotShared(w) == 0

\* Variant: every worker names the slot after its own.
SlotNext(w) == (w + 1) % NumWorkers

\* The slot a worker's paths and its `-f` argument name (lines 75-76, 92).
SlotOf(w) == w

\* The text of the worker's <slot>.pub.
PubOf(w) == files[SlotOf(w)].pub

\* Variant: the flag is read once before the loop, while it is still false.
ReadFinishedHoisted == FALSE

\* Line 79: the read of `finished` at the top of the loop.
ReadFinished == finished

\* Variant: on a true flag the loop goes round again instead of returning.
CheckNoReturn(w) ==
    /\ Running(w)
    /\ pc[w] = "Checking"
    /\ pc' = [pc EXCEPT ![w] = IF ReadFinished THEN "Checking" ELSE "Generating"]
    /\ UNCHANGED << mainVars, stubCalls, files, finished, chan, counter,
                    holder, loaded, reports, gens, gensAfter, matchedKey,
                    sent, writes, recorded >>

\* Lines 79-81.
Check(w) ==
    /\ Running(w)
    /\ pc[w] = "Checking"
    /\ pc' = [pc EXCEPT ![w] = IF ReadFinished THEN "Stopped" ELSE "Generating"]
    /\ UNCHANGED << mainVars, stubCalls, files, finished, chan, counter,
                    holder, loaded, reports, gens, gensAfter, matchedKey,
                    sent, writes, recorded >>

\* The search goes on without end; exploration stops opening attempts after
\* MaxGens of them, except the ones already past the check when the flag is set.
MayGenerate == finished \/ gens < MaxGens

Invoked(w) ==
    /\ gens' = gens + 1
    /\ gensAfter' = [gensAfter EXCEPT ![w] = @ + (IF finished THEN 1 ELSE 0)]

\* Lines 83-96: ssh-keygen runs and leaves key k in <slot> and <slot>.pub.
GenerateKey(w, k) ==
    /\ Running(w)
    /\ pc[w] = "Generating"
    /\ MayGenerate
    /\ files' = [files EXCEPT ![SlotOf(w)] = [priv |-> k, pub |-> k]]
    /\ Invoked(w)
    /\ pc' = [pc EXCEPT ![w] = "Testing"]
    /\ UNCHANGED << mainVars, finished, chan, counter, holder, loaded, reports,
                    matchedKey, sent, writes, recorded >>

Generate(w) == UNCHANGED stubCalls /\ \E k \in Keys : GenerateKey(w, k)

\* Line 96: ssh-keygen ran and exited abnormally, writing nothing; `status()`
\* is Ok whatever the exit status, so `expect` passes.
GenerateNothing(w) ==
    /\ Running(w)
    /\ pc[w] = "Generating"
    /\ MayGenerate
    /\ Invoked(w)
    /\ pc' = [pc EXCEPT ![w] = "Testing"]
    /\ UNCHANGED << mainVars, stubCalls, files, finished, chan, counter,
                    holder, loaded, reports, matchedKey, sent, writes,
                    recorded >>

\* A panic in a worker: the thread unwinds and ends.
Panic(w) ==
    /\ pc' = [pc EXCEPT ![w] = "Panicked"]
    /\ UNCHANGED << mainVars, stubCalls, finished, chan, counter, holder,
                    loaded, reports, gens, gensAfter, matchedKey, sent,
                    writes, recorded >>

\* Line 96: ssh-keygen cannot be launched; `expect` panics.
GenerateLaunchFail(w) ==
    /\ Running(w)
    /\ pc[w] = "Generating"
    /\ MayGenerate
    /\ Panic(w)
    /\ UNCHANGED files

\* Line 98: <slot>.pub cannot be read; `expect` panics.
TestReadFail(w) ==
    /\ Running(w)
    /\ pc[w] = "Testing"
    /\ Panic(w)
    /\ UNCHANGED files

\* Lines 99-102: the text does not split into three fields.
TestFormatError(w) ==
    /\ Running(w)
    /\ pc[w] = "Testing"
    /\ PubOf(w) # NoFile
    /\ ~WellFormed(KeyTexts[PubOf(w)])
    /\ Panic(w)
    /\ UNCHANGED files

\* Variant: the flag is written at the match, ahead of the send.
TestMatchSignalsFirst(w) ==
    /\ Running(w)
    /\ pc[w] = "Testing"
    /\ PubOf(w) # NoFile
    /\ WellFormed(KeyTexts[PubOf(w)])
    /\ Matches(KeyTexts[PubOf(w)], search_terms)
    /\ pc' = [pc EXCEPT ![w] = "Sending"]
    /\ matchedKey' = [matchedKey EXCEPT ![w] = PubOf(w)]
    /\ finished' = TRUE
    /\ writes' = [writes EXCEPT ![w] = @ + 1]
    /\ UNCHANGED << mainVars, stubCalls, files, chan, counter, holder, loaded,
                    reports, gens, gensAfter, sent, recorded >>

\* Lines 104-110: some term occurs in the lowercased second field.
TestMatch(w) ==
    /\ Running(w)
    /\ pc[w] = "Testing"
    /\ PubOf(w) # NoFile
    /\ WellFormed(KeyTexts[PubOf(w)])
    /\ Matches(KeyTexts[PubOf(w)], search_terms)
    /\ pc' = [pc EXCEPT ![w] = "Sending"]
    /\ matchedKey' = [matchedKey EXCEPT ![w] = PubOf(w)]
    /\ UNCHANGED << mainVars, stubCalls, files, finished, chan, counter,
                    holder, loaded, reports, gens, gensAfter, sent, writes,
                    recorded >>

\* Variant: the flag is also written on the branch without a match.
TestNoMatchSignals(w) ==
    /\ Running(w)
    /\ pc[w] = "Testing"
    /\ PubOf(w) # NoFile
    /\ WellFormed(KeyTexts[PubOf(w)])
    /\ ~Matches(KeyTexts[PubOf(w)], search_terms)
    /\ pc' = [pc EXCEPT ![w] = "Signalling"]
    /\ UNCHANGED << mainVars, stubCalls, files, finished, chan, counter,
                    holder, loaded, reports, gens, gensAfter, matchedKey,
                    sent, writes, recorded >>

\* Lines 109-115: no term occurs; the loop over the terms falls through.
TestNoMatch(w) ==
    /\ Running(w)
    /\ pc[w] = "Testing"
    /\ PubOf(w) # NoFile
    /\ WellFormed(KeyTexts[PubOf(w)])
    /\ ~Matches(KeyTexts[PubOf(w)], search_terms)
    /\ pc' = [pc EXCEPT ![w] = "Deleting"]
    /\ UNCHANGED << mainVars, stubCalls, files, finished, chan, counter,
                    holder, loaded, reports, gens, gensAfter, matchedKey,
                    sent, writes, recorded >>

\* Variant: the send fails and the ignored result hides it.
SendLost(w) ==
    /\ Running(w)
    /\ pc[w] = "Sending"
    /\ pc' = [pc EXCEPT ![w] = "Signalling"]
    /\ UNCHANGED << mainVars, stubCalls, files, finished, chan, counter,
                    holder, loaded, reports, gens, gensAfter, matchedKey,
                    sent, writes, recorded >>

\* Variant: the channel holds one index; a send waits while it is full.
SendBounded(w) ==
    /\ Running(w)
    /\ pc[w] = "Sending"
    /\ chan = << >>
    /\ chan' = Append(chan, w)
    /\ sent' = Append(sent, w)
    /\ pc' = [pc EXCEPT ![w] = "Signalling"]
    /\ UNCHANGED << mainVars, stubCalls, files, finished, counter, holder,
                    loaded, reports, gens, gensAfter, matchedKey, writes,
                    recorded >>

\* Line 111: `done.send(number)`; the channel is unbounded.
Send(w) ==
    /\ Running(w)
    /\ pc[w] = "Sending"
    /\ chan' = Append(chan, w)
    /\ sent' = Append(sent, w)
    /\ pc' = [pc EXCEPT ![w] = "Signalling"]
    /\ UNCHANGED << mainVars, stubCalls, files, finished, counter, holder,
                    loaded, reports, gens, gensAfter, matchedKey, writes,
                    recorded >>

\* Variant: the write flips the flag.
WrittenFlipped == ~finished

\* Line 112: the value stored in the flag.
Written == TRUE

\* Lines 112-113: `*finished.write() = true; return`.
Signal(w) ==
    /\ Running(w)
    /\ pc[w] = "Signalling"
    /\ finished' = Written
    /\ writes' = [writes EXCEPT ![w] = @ + 1]
    /\ pc' = [pc EXCEPT ![w] = "Stopped"]
    /\ UNCHANGED << mainVars, stubCalls, files, chan, counter, holder, loaded,
                    reports, gens, gensAfter, matchedKey, sent, recorded >>

\* Variant: only <slot>.pub is removed before the attempt is counted.
DeleteKeepsPrivate(w) ==
    /\ Running(w)
    /\ pc[w] = "Deleting"
    /\ files' = [files EXCEPT ![SlotOf(w)].pub = NoFile]
    /\ pc' = [pc EXCEPT ![w] = "Reporting"]
    /\ UNCHANGED << mainVars, stubCalls, finished, chan, counter, holder,
                    loaded, reports, gens, gensAfter, matchedKey, sent, writes,
                    recorded >>

\* Lines 117-118: both files removed.
Delete(w) ==
    /\ Running(w)
    /\ pc[w] = "Deleting"
    /\ files' = [files EXCEPT ![SlotOf(w)] = EmptySlot]
    /\ pc' = [pc EXCEPT ![w] = "Reporting"]
    /\ UNCHANGED << mainVars, stubCalls, finished, chan, counter, holder,
                    loaded, reports, gens, gensAfter, matchedKey, sent,
                    writes, recorded >>

\* Line 117: removing <slot>.pub fails; `expect` panics.
DeletePubFail(w) ==
    /\ Running(w)
    /\ pc[w] = "Deleting"
    /\ Panic(w)
    /\ UNCHANGED files

\* Line 118: <slot>.pub is gone, removing <slot> fails; `expect` panics.
DeletePrivFail(w) ==
    /\ Running(w)
    /\ pc[w] = "Deleting"
    /\ Panic(w)
    /\ files' = [files EXCEPT ![SlotOf(w)].pub = NoFile]

\* Variant: the counter is updated without mutual exclusion.
MutexNeverHeld == TRUE

\* Line 121: `state.lock()` waits until the mutex is free.
MutexFree == holder = NoWorker

\* Lines 121-122: the lock is taken and the counter read.
Lock(w) ==
    /\ Running(w)
    /\ pc[w] = "Reporting"
    /\ MutexFree
    /\ holder' = w
    /\ loaded' = [loaded EXCEPT ![w] = counter]
    /\ pc' = [pc EXCEPT ![w] = "Locked"]
    /\ UNCHANGED << mainVars, stubCalls, files, finished, chan, counter,
                    reports, gens, gensAfter, matchedKey, sent, writes,
                    recorded >>

\* Variant: the boundary is tested on the counter before its increment.
ReportDueBefore(n, every) == (n - 1) % every = 0

\* Line 123: the counter is on a reporting boundary.
ReportDue(n, every) == n % every = 0

\* Variant: the increment is lost; the counter read is stored back.
RecordUncounted(w) ==
    /\ Running(w)
    /\ pc[w] = "Locked"
    /\ counter' = loaded[w]
    /\ reports' = reports
    /\ recorded' = recorded + 1
    /\ holder' = NoWorker
    /\ pc' = [pc EXCEPT ![w] = "Checking"]
    /\ UNCHANGED << mainVars, stubCalls, files, finished, chan, loaded, gens,
                    gensAfter, matchedKey, sent, writes >>

\* Lines 122-126: the incremented counter is stored, a progress line printed
\* on a boundary, and the guard dropped.
Record(w) ==
    /\ Running(w)
    /\ pc[w] = "Locked"
    /\ counter' = loaded[w] + 1
    /\ reports' = reports + (IF ReportDue(counter', args.print_every) THEN 1 ELSE 0)
    /\ recorded' = recorded + 1
    /\ holder' = NoWorker
    /\ pc' = [pc EXCEPT ![w] = "Checking"]
    /\ UNCHANGED << mainVars, stubCalls, files, finished, chan, loaded, gens,
                    gensAfter, matchedKey, sent, writes >>

WorkerStep(w) ==
    \/ Check(w)
    \/ Generate(w)
    \/ GenerateNothing(w)
    \/ GenerateLaunchFail(w)
    \/ TestReadFail(w)
    \/ TestFormatError(w)
    \/ TestMatch(w)
    \/ TestNoMatch(w)
    \/ Send(w)
    \/ Signal(w)
    \/ Delete(w)
    \/ DeletePubFail(w)
    \/ DeletePrivFail(w)
    \/ Lock(w)
    \/ Record(w)

\* -------------------------------------------------------------------- main
\* Lines 135-147: a rejected configuration ends the process with exit(1).
ParseReject ==
    /\ exit = "running"
    /\ cpc = "Parse"
    /\ Rejected(args.search)
    /\ cpc' = "Exited"
    /\ exit' = "exit1"
    /\ UNCHANGED << args, probe, stubCalls,
                    search_terms, workspace, files, pc, finished, chan,
                    counter, holder, loaded, reports, final_reports, worker,
                    output, gens, gensAfter, matchedKey, sent, writes, recorded, copySrc >>

\* Lines 149-155.
ParseAccept ==
    /\ exit = "running"
    /\ cpc = "Parse"
    /\ ~Rejected(args.search)
    /\ search_terms' = LowerTerms(args.search)
    /\ cpc' = "MkTemp"
    /\ UNCHANGED << args, probe, stubCalls,
                    exit, workspace, files, pc, finished, chan, counter,
                    holder, loaded, reports, final_reports, worker, output,
                    gens, gensAfter, matchedKey, sent, writes, recorded, copySrc >>

\* Lines 157-175: the TempDir, the State, the channel and the flag are made.
MkTemp ==
    /\ exit = "running"
    /\ cpc = "MkTemp"
    /\ workspace' = "present"
    /\ cpc' = "Spawn"
    /\ UNCHANGED << args, probe, stubCalls,
                    search_terms, exit, files, pc, finished, chan,
                    counter, holder, loaded, reports, final_reports, worker,
                    output, gens, gensAfter, matchedKey, sent, writes, recorded, copySrc >>

\* Line 157: `tempdir_in(".")?` fails and main returns the error.
MkTempFail ==
    /\ exit = "running"
    /\ cpc = "MkTemp"
    /\ cpc' = "Exited"
    /\ exit' = "err"
    /\ UNCHANGED << args, probe, stubCalls,
                    search_terms, workspace, files, pc, finished, chan,
                    counter, holder, loaded, reports, final_reports, worker,
                    output, gens, gensAfter, matchedKey, sent, writes, recorded, copySrc >>

\* Lines 177-196: one thread per index; a thread not yet scheduled sits at
\* the top of its loop.
Spawn ==
    /\ exit = "running"
    /\ cpc = "Spawn"
    /\ pc' = [w \in Workers |-> "Checking"]
    /\ cpc' = "Recv"
    /\ UNCHANGED << args, probe, stubCalls,
                    search_terms, exit, workspace, files, finished, chan,
                    counter, holder, loaded, reports, final_reports, worker,
                    output, gens, gensAfter, matchedKey, sent, writes, recorded, copySrc >>

\* Variant: the newest index is taken.
ReceivedNewest(q) == q[Len(q)]

\* Line 198: `receiver.recv()` takes the oldest index in the queue.
Received(q) == Head(q)

\* Line 198: main blocks until an index is queued (main's own Sender keeps
\* the channel open, so recv never errs).
Recv ==
    /\ exit = "running"
    /\ cpc = "Recv"
    /\ chan # << >>
    /\ worker' = Received(chan)
    /\ chan' = Tail(chan)
    /\ cpc' = "Report"
    /\ UNCHANGED << args, probe, stubCalls,
                    search_terms, exit, workspace, files, pc, finished,
                    counter, holder, loaded, reports, final_reports, output,
                    gens, gensAfter, matchedKey, sent, writes, recorded, copySrc >>

\* Lines 199-200: the last progress line, under the mutex.
FinalReport ==
    /\ exit = "running"
    /\ cpc = "Report"
    /\ MutexFree
    /\ final_reports' = final_reports + 1
    /\ cpc' = "CopyPrivate"
    /\ UNCHANGED << args, probe, stubCalls,
                    search_terms, exit, workspace, files, pc, finished,
                    chan, counter, holder, loaded, reports, worker, output,
                    gens, gensAfter, matchedKey, sent, writes, recorded, copySrc >>

\* Lines 202-203: the slot main's paths name.
CopySlot == worker

\* The end of main (lines 213-214, or a `?` that returns): main's Arcs drop,
\* the TempDir is removed if no live thread still holds a clone, and the
\* process ends, killing the threads that are left.
DropTemp ==
    IF workspace = "present" /\ \A w \in Workers : Ended(w)
    THEN "removed"
    ELSE workspace

DropFiles ==
    IF DropTemp = "removed" THEN [w \in Workers |-> EmptySlot] ELSE files

\* Variant: the public copy is attempted after a failed private copy.
AfterPrivateFailGoOn == "CopyPublic"

\* Line 206, and after it what follows a failure of the first copy.
AfterPrivateFail == "Exited"

\* Line 206: the private key reaches <output>.
CopyPrivate ==
    /\ exit = "running"
    /\ cpc = "CopyPrivate"
    /\ files[CopySlot].priv # NoFile
    /\ output' = [output EXCEPT !.priv = files[CopySlot].priv]
    /\ copySrc' = copySrc \cup {CopySlot}
    /\ cpc' = "CopyPublic"
    /\ UNCHANGED << args, probe, stubCalls,
                    search_terms, exit, workspace, files, pc, finished,
                    chan, counter, holder, loaded, reports, final_reports,
                    worker, gens, gensAfter, matchedKey, sent, writes, recorded >>

\* Line 206: the copy fails and `?` returns the error from main.
CopyPrivateFail ==
    /\ exit = "running"
    /\ cpc = "CopyPrivate"
    /\ cpc' = AfterPrivateFail
    /\ exit' = IF cpc' = "Exited" THEN "err" ELSE exit
    /\ workspace' = IF cpc' = "Exited" THEN DropTemp ELSE workspace
    /\ files' = IF cpc' = "Exited" THEN DropFiles ELSE files
    /\ UNCHANGED << args, probe, stubCalls,
                    search_terms, pc, finished, chan, counter,
                    holder, loaded, reports, final_reports, worker, output,
                    gens, gensAfter, matchedKey, sent, writes, recorded, copySrc >>

\* Line 207: the public key reaches <output>.pub.
CopyPublic ==
    /\ exit = "running"
    /\ cpc = "CopyPublic"
    /\ files[CopySlot].pub # NoFile
    /\ output' = [output EXCEPT !.pub = files[CopySlot].pub]
    /\ copySrc' = copySrc \cup {CopySlot}
    /\ cpc' = "Sleep"
    /\ UNCHANGED << args, probe, stubCalls,
                    search_terms, exit, workspace, files, pc, finished,
                    chan, counter, holder, loaded, reports, final_reports,
                    worker, gens, gensAfter, matchedKey, sent, writes, recorded >>

\* Line 207: the copy fails and `?` returns the error from main.
CopyPublicFail ==
    /\ exit = "running"
    /\ cpc = "CopyPublic"
    /\ cpc' = "Exited"
    /\ exit' = "err"
    /\ workspace' = DropTemp
    /\ files' = DropFiles
    /\ UNCHANGED << args, probe, stubCalls,
                    search_terms, pc, finished, chan, counter,
                    holder, loaded, reports, final_reports, worker, output,
                    gens, gensAfter, matchedKey, sent, writes, recorded, copySrc >>

\* Line 211: the one-second sleep; how far the workers get meanwhile is open.
Sleep ==
    /\ exit = "running"
    /\ cpc = "Sleep"
    /\ cpc' = "Return"
    /\ UNCHANGED << args, probe, stubCalls,
                    search_terms, exit, workspace, files, pc, finished,
                    chan, counter, holder, loaded, reports, final_reports,
                    worker, output, gens, gensAfter, matchedKey, sent, writes, recorded,
                    copySrc >>

\* Lines 213-214.
Return ==
    /\ exit = "running"
    /\ cpc = "Return"
    /\ cpc' = "Exited"
    /\ exit' = "ok"
    /\ workspace' = DropTemp
    /\ files' = DropFiles
    /\ UNCHANGED << args, probe, stubCalls,
                    search_terms, pc, finished, chan, counter,
                    holder, loaded, reports, final_reports, worker, output,
                    gens, gensAfter, matchedKey, sent, writes, recorded, copySrc >>

MainStep ==
    \/ ParseReject
    \/ ParseAccept
    \/ MkTemp
    \/ MkTempFail
    \/ Spawn
    \/ Recv
    \/ FinalReport
    \/ CopyPrivate
    \/ CopyPrivateFail
    \/ CopyPublic
    \/ CopyPublicFail
    \/ Sleep
    \/ Return

Next == MainStep \/ \E w \in Workers : WorkerStep(w)

Spec == Init /\ [][Next]_vars

\* The searches that are rejected, and those under which some generated key
\* matches and some does not.
FairInputs ==
    { s \in SearchInputs :
        \/ Rejected(s)
        \/ /\ \E k \in Keys :
                 WellFormed(KeyTexts[k]) /\ Matches(KeyTexts[k], LowerTerms(s))
           /\ \E k \in Keys :
                 WellFormed(KeyTexts[k]) /\ ~Matches(KeyTexts[k], LowerTerms(s)) }

FairInit == Init /\ args.search \in FairInputs /\ args.print_every = 1

\* Attempts opened while the search is still open, in the fair runs.
MaxFairGens == 2

FairWorkerStep(w) == WorkerStep(w) /\ (finished \/ gens' <= MaxFairGens)

NextFair == MainStep \/ \E w \in Workers : FairWorkerStep(w)

\* The scheduler runs every thread that can take a step, and ssh-keygen, the
\* file system and the mutex return.
FairSpec ==
    /\ FairInit
    /\ [][NextFair]_vars
    /\ WF_vars(MainStep)
    /\ \A w \in Workers : WF_vars(FairWorkerStep(w))

\* ------------------------------------------------- cancellation from outside
\* A harness around guess: one search that no key matches, a generator stub
\* whose key is well formed and does not match, and a step that sets the flag
\* from outside.
StubKeys == { "k2" }

\* Attempts opened before the cancellation.
MaxStubGens == 2

GenerateStub(w) ==
    /\ finished \/ gens < MaxStubGens
    /\ \E k \in StubKeys : GenerateKey(w, k)
    /\ UNCHANGED stubCalls

Cancel ==
    /\ exit = "running"
    /\ cpc = "Recv"
    /\ ~finished
    /\ finished' = TRUE
    /\ UNCHANGED << mainVars, stubCalls, files, pc, chan, counter, holder,
                    loaded, reports, gens, gensAfter, matchedKey, sent,
                    writes, recorded >>

CancelWorkerStep(w) ==
    \/ Check(w)
    \/ GenerateStub(w)
    \/ TestNoMatch(w)
    \/ Delete(w)
    \/ Lock(w)
    \/ Record(w)

InitCancel == Init /\ args.search = << "a" >> /\ args.print_every = 1

NextCancel ==
    \/ ParseAccept
    \/ MkTemp
    \/ Spawn
    \/ Cancel
    \/ \E w \in Workers : CancelWorkerStep(w)

SpecCancel ==
    /\ InitCancel
    /\ [][NextCancel]_vars
    /\ \A w \in Workers : WF_vars(CancelWorkerStep(w))

\* ------------------------------------------------- one match, at a known call
\* A harness around the program: the search "a" and a generator stub that
\* leaves the matching key at one call of slot 0 only, and a well-formed key
\* that does not match at every other call of every slot.
TargetCall == 3

StubKeyAt(w, n) == IF w = 0 /\ n = TargetCall THEN "k1" ELSE "k2"

\* Slot 0 is served until its matching call; the other slots share the
\* attempts that are left of MaxGens while the search is open.
GenerateScripted(w) ==
    /\ w # 0 => (finished \/ gens - stubCalls[0] < MaxGens - TargetCall)
    /\ GenerateKey(w, StubKeyAt(w, stubCalls[w] + 1))
    /\ stubCalls' = [stubCalls EXCEPT ![w] = @ + 1]

ScriptedWorkerStep(w) ==
    \/ Check(w)
    \/ GenerateScripted(w)
    \/ TestMatch(w)
    \/ TestNoMatch(w)
    \/ Send(w)
    \/ Signal(w)
    \/ Delete(w)
    \/ Lock(w)
    \/ Record(w)

ScriptedMainStep ==
    \/ ParseAccept
    \/ MkTemp
    \/ Spawn
    \/ Recv
    \/ FinalReport
    \/ CopyPrivate
    \/ CopyPublic
    \/ Sleep
    \/ Return

InitScripted == Init /\ args.search = << "a" >> /\ args.print_every = 1

NextScripted == ScriptedMainStep \/ \E w \in Workers : ScriptedWorkerStep(w)

\* Every thread that can take a step is run, and the stub, the file system
\* and the mutex return.
SpecScripted ==
    /\ InitScripted
    /\ [][NextScripted]_vars
    /\ WF_vars(ScriptedMainStep)
    /\ \A w \in Workers : WF_vars(ScriptedWorkerStep(w))

\* ------------------------------------------------------- the match test alone
\* Lines 99-115 as a function of the text read and the terms: the panic on a
\* field count other than three, else whether some term occurs.
TestOutcome(content, terms) ==
    IF ~WellFormed(content) THEN "FormatError"
    ELSE IF Matches(content, terms) THEN "Match"
    ELSE "NoMatch"

\* The longest text put to the test.
MaxTextLen == 5

TextAlphabet == {"a", "A", "b", "B", " "}

Texts == UNION { [1 .. n -> TextAlphabet] : n \in 0 .. MaxTextLen }

\* Accepted --search values: one term, a term with an upper-case letter, and
\* two terms.
ProbeSearches ==
    { << "a" >>,
      << "A", "b" >>,
      << "B", ",", "b", "a" >> }

InitMatch ==
    /\ args \in [search : ProbeSearches, print_every : {1}]
    /\ probe \in [text : Texts, verdict : {"Untested"}]
    /\ Constructed

\* The test of lines 99-115 applied to the text, under main's search_terms.
TestProbe ==
    /\ cpc = "MkTemp"
    /\ probe.verdict = "Untested"
    /\ probe' = [probe EXCEPT !.verdict = TestOutcome(probe.text, search_terms)]
    /\ UNCHANGED << args, stubCalls, search_terms, cpc, exit, workspace, files,
                    pc, finished, chan, counter, holder, loaded, reports,
                    final_reports, worker, output, gens, gensAfter, matchedKey,
                    sent, writes, recorded, copySrc >>

NextMatch == ParseAccept \/ TestProbe

SpecMatch == InitMatch /\ [][NextMatch]_vars

\* ============================================================ properties
otherVars(w) ==
    << mainVars, stubCalls, files, finished, chan, counter, holder, loaded, reports,
       gens, gensAfter, matchedKey, sent, writes, recorded,
       [v \in Workers \ {w} |-> pc[v]] >>

\* A worker whose check reads the flag as true returns, changing nothing else.
StopsOnFlag ==
    \A w \in Workers :
        (pc[w] = "Checking" /\ finished /\ pc'[w] # pc[w])
            => (pc'[w] = "Stopped" /\ UNCHANGED otherVars(w))

\* C1: once the flag is true a worker begins at most one more ssh-keygen
\* invocation (that of the iteration whose check read false), and a worker
\* whose check reads true stops with no invocation and no other effect.
C1_AtMostOneAfterFlag ==
    /\ [](\A w \in Workers : gensAfter[w] <= 1)
    /\ [](\A w \in Workers :
            (finished /\ gensAfter[w] = 1) => pc[w] # "Generating")
    /\ [][StopsOnFlag]_vars

\* A worker began an invocation after the flag was set, and then stopped at
\* its next check.
C1_Witness ==
    \E w \in Workers :
        gensAfter[w] = 1 /\ pc[w] = "Stopped" /\ matchedKey[w] = None

\* C2: main takes exactly one index from the channel, the first one sent; it
\* is a worker index whose own test matched, later sends stay queued, and
\* main copies from that slot only.
C2_OneWinner ==
    /\ worker = NoWorker =>
          /\ chan = sent
          /\ copySrc = {}
          /\ output = EmptySlot
    /\ worker # NoWorker =>
          /\ worker \in Workers
          /\ sent # << >>
          /\ worker = sent[1]
          /\ chan = Tail(sent)
          /\ matchedKey[worker] # None
          /\ copySrc \subseteq {worker}

\* Both workers matched and sent; main took the first and copied its files.
C2_Witness ==
    /\ Len(sent) = 2
    /\ worker = sent[1]
    /\ Len(chan) = 1
    /\ copySrc = {worker}
    /\ output.pub # NoFile

\* C4: the counter equals the number of completed increments whatever the
\* interleaving, and never decreases.
C4_CounterExact ==
    /\ [](counter = recorded)
    /\ [][counter' >= counter]_vars

\* One worker is inside the critical section while the other waits for the
\* mutex, after earlier attempts were counted.
C4_Witness ==
    /\ counter >= 2
    /\ \E w, v \in Workers : pc[w] = "Locked" /\ pc[v] = "Reporting"

\* C5: with interval >= 1, the workers have printed exactly counter div
\* interval progress lines: one at each increment that lands on a multiple
\* of the interval, none otherwise.
C5_ReportsExact ==
    /\ [](reports = counter \div args.print_every)
    /\ [][reports' # reports
            => (/\ reports' = reports + 1
                /\ counter' = counter + 1
                /\ counter' % args.print_every = 0)]_vars
    /\ [][(counter' # counter /\ counter' % args.print_every = 0)
            => reports' = reports + 1]_vars

\* Interval 2: four recorded attempts, two progress lines.
C5_Witness == args.print_every = 2 /\ counter = 4 /\ reports = 2

Intact(w) == files[SlotOf(w)] = [priv |-> matchedKey[w], pub |-> matchedKey[w]]

\* C6: what main copies to <output> and <output>.pub is the key pair the
\* winning slot held when its worker's test matched; from the match until
\* main is past both copies the winner's files stay as they were.
C6_CopiesTheMatch ==
    /\ \A w \in Workers :
          (matchedKey[w] # None
             /\ cpc \in {"Recv", "Report", "CopyPrivate", "CopyPublic"})
            => Intact(w)
    /\ output.priv # NoFile =>
          (worker \in Workers /\ output.priv = matchedKey[worker])
    /\ output.pub # NoFile =>
          (worker \in Workers /\ output.pub = matchedKey[worker])

\* Both files were copied while another worker ran one more attempt after
\* the match.
C6_Witness ==
    /\ output.priv # NoFile
    /\ output.pub # NoFile
    /\ \E v \in Workers : v # worker /\ gensAfter[v] = 1

AnyMatch == \E w \in Workers : matchedKey[w] # None

\* C3: once some worker's test has matched, main eventually receives an
\* index from the channel and goes on to the copies; it does not wait
\* forever.
C3_MatchIsDelivered ==
    AnyMatch ~>
        (worker \in Workers
           /\ cpc \in {"CopyPrivate", "CopyPublic", "Sleep", "Return", "Exited"})

\* Main holds the index of a worker that matched and is about to copy.
C3_Witness ==
    /\ worker \in Workers
    /\ matchedKey[worker] # None
    /\ cpc = "CopyPrivate"

\* C7: with no match ever and the flag set from outside, every worker
\* eventually stops, having begun at most the one invocation its last check
\* let through, and none goes past a check that reads the flag as true.
C7_CancelStopsAll ==
    /\ finished ~> (\A w \in Workers : pc[w] = "Stopped")
    /\ [](\A w \in Workers : gensAfter[w] <= 1)
    /\ [][StopsOnFlag]_vars
    /\ [](sent = << >>)

\* After the outside cancellation both workers have stopped, one of them
\* after finishing the attempt it was in.
C7_Witness ==
    /\ finished
    /\ sent = << >>
    /\ \A w \in Workers : pc[w] = "Stopped"
    /\ \E w \in Workers : gensAfter[w] = 1 /\ recorded >= 1

\* The terms the user listed: none for an empty --search.
ListedTerms(search) == IF search = << >> THEN << >> ELSE split(search, ",")

AsciiAlphanumeric(t) ==
    \A i \in 1 .. Len(t) : is_ascii_char(t[i]) /\ is_alphanumeric(t[i])

ValidSearch(search) ==
    /\ Len(ListedTerms(search)) > 0
    /\ \A n \in 1 .. Len(ListedTerms(search)) :
          AsciiAlphanumeric(ListedTerms(search)[n])

\* C8: an empty term list, or a term that is not ASCII-alphanumeric, is
\* rejected with exit(1) before the workspace exists and before any worker
\* is spawned, so no ssh-keygen invocation happens; workers only run under
\* a non-empty list of alphanumeric terms.
C8_InvalidRejected ==
    ~ValidSearch(args.search) =>
        /\ cpc \in {"Parse", "Exited"}
        /\ exit \in {"running", "exit1"}
        /\ workspace = "absent"
        /\ \A w \in Workers : pc[w] = "Unspawned"
        /\ gens = 0

AnyPanic == \E w \in Workers : pc[w] = "Panicked"

\* C9: when a worker hits a fatal error the whole process ends: no worker
\* begins another attempt afterwards, and main is not left blocked on the
\* channel.
C9_FatalEndsProcess ==
    /\ [][AnyPanic => gens' = gens]_vars
    /\ []((\A w \in Workers : pc[w] = "Panicked")
            => ~(exit = "running" /\ cpc = "Recv"))

\* C10 as stated: the private copy comes first, and after it, failed or
\* not, main goes on to the copy of the public key.
C10_PublicStillAttempted ==
    /\ [](output.pub # NoFile => output.priv # NoFile)
    /\ [][(cpc = "CopyPrivate" /\ cpc' # cpc) => cpc' = "CopyPublic"]_vars

\* C10 amended: the private copy comes first, and when it fails main
\* returns the error at once: the public copy is not attempted and
\* <output>.pub is never written without <output>.
C10_PrivateFirstFailFast ==
    /\ [](output.pub # NoFile => output.priv # NoFile)
    /\ [][(cpc = "CopyPrivate" /\ cpc' # cpc /\ output'.priv = NoFile)
            => (cpc' = "Exited" /\ exit' = "err" /\ output' = EmptySlot)]_vars
    /\ []((cpc = "Exited" /\ output.priv = NoFile) => output.pub = NoFile)

\* The private copy failed after a winner was received: the process ended
\* with an error and neither output file was written.
C10_Witness ==
    /\ worker \in Workers
    /\ final_reports = 1
    /\ cpc = "Exited"
    /\ exit = "err"
    /\ output = EmptySlot

\* C11: the flag is false at the start and, once true, stays true: no step of
\* a worker or of main takes it back to false.
C11_FlagMonotone ==
    /\ ~finished
    /\ [][finished => finished']_vars

\* A second worker wrote the flag after the first had set it, and it is
\* still true.
C11_Witness ==
    /\ finished
    /\ \A w \in Workers : writes[w] = 1

\* The workers whose test has matched, and those that have written the flag.
Finders == { w \in Workers : matchedKey[w] # None }

Writers == { w \in Workers : writes[w] > 0 }

\* C12 as stated: over a whole run the flag is written exactly once, by the
\* one worker that found a match: at most one write and at most one finder.
C12_SingleWrite ==
    /\ Cardinality(Finders) <= 1
    /\ Cardinality(Writers) <= 1
    /\ \A w \in Workers : writes[w] <= 1

\* C12 amended: the flag is written only by workers whose own test matched,
\* after their send and as their last step, at most once by each; it is true
\* exactly when some worker has written it.  Several workers may match before
\* any of them has written, and then each of them writes.
C12_WritesByFinders ==
    /\ \A w \in Workers : writes[w] <= 1
    /\ \A w \in Writers :
          /\ w \in Finders
          /\ pc[w] = "Stopped"
          /\ \E n \in 1 .. Len(sent) : sent[n] = w
    /\ finished <=> Writers # {}

\* Two workers matched before either had written, and both wrote the flag.
C12_Witness ==
    /\ Cardinality(Finders) >= 2
    /\ Cardinality(Writers) >= 2

\* The positions after a worker's last access to its files: what is left is
\* the send, the write of the flag and the return.
PastFiles == {"Sending", "Signalling", "Stopped"}

\* C13: the workers' slot indices are distinct indices below the number of
\* workers and never change; the files of slot i change only in a step of
\* worker i (or when the whole directory is removed), the text worker i tests
\* is that of slot i, and main reads the winner's slot only when the winner
\* is past its last access to its files.
C13_SlotsDisjoint ==
    /\ [](\A w \in Workers :
            /\ SlotOf(w) \in Workers
            /\ \A v \in Workers \ {w} : SlotOf(v) # SlotOf(w))
    /\ [][\A s \in Workers :
            files'[s] # files[s]
                => \/ workspace' = "removed"
                   \/ pc'[s] # pc[s] /\ pc[s] \notin PastFiles]_vars
    /\ [][\A w \in Workers :
            matchedKey'[w] # matchedKey[w]
                => matchedKey'[w] = files[w].pub]_vars
    /\ [](cpc \in {"CopyPrivate", "CopyPublic"}
            => worker \in Workers /\ pc[worker] \in PastFiles \ {"Sending"})
    /\ [](copySrc \subseteq {worker})

\* Main has copied the private key from the winner's slot and is about to
\* copy the public one, while another worker holds a fresh pair in its own
\* slot.
C13_Witness ==
    /\ cpc = "CopyPublic"
    /\ output.priv # NoFile
    /\ \E v \in Workers :
          /\ v # worker
          /\ pc[v] \in {"Testing", "Deleting"}
          /\ files[v].pub # NoFile

\* C14: the directory exists before any worker is spawned, and a run in which
\* main received a winner and returned has removed it by the time the process
\* ends, after both copies, also when a worker is still inside an iteration
\* at that moment.
C14_WorkspaceRemoved ==
    /\ (\E w \in Workers : pc[w] # "Unspawned") => workspace # "absent"
    /\ workspace = "removed" => exit # "running"
    /\ exit = "ok" =>
          /\ worker \in Workers
          /\ output.priv # NoFile
          /\ output.pub # NoFile
          /\ workspace = "removed"

\* The reference reading of the match test.  A text has one more field than
\* it has spaces; with two spaces the second field lies between them.
Spaces(text) == { i \in 1 .. Len(text) : text[i] = " " }

RefFieldCount(text) == Cardinality(Spaces(text)) + 1

RefSecond(text) ==
    LET first == CHOOSE i \in Spaces(text) : \A j \in Spaces(text) : i <= j
        last == CHOOSE i \in Spaces(text) : \A j \in Spaces(text) : j <= i
    IN  SubSeq(text, first + 1, last - 1)

SameLetter(x, y) == x = y \/ {x, y} \in { {"a", "A"}, {"b", "B"} }

\* term occurs in field as a contiguous run, letter case ignored.
RefContains(field, term) ==
    \E i \in 1 .. (Len(field) + 1) :
        /\ i + Len(term) - 1 <= Len(field)
        /\ \A k \in 1 .. Len(term) : SameLetter(field[i + k - 1], term[k])

RefTerms == split(args.search, ",")

\* C15: for every text and every term list, the test ends in the format
\* error exactly when the text does not have three space-separated fields,
\* and otherwise says "match" exactly when the second field contains one of
\* the configured terms, letter case ignored.
C15_MatchAgrees ==
    probe.verdict # "Untested" =>
        IF RefFieldCount(probe.text) # 3
        THEN probe.verdict = "FormatError"
        ELSE probe.verdict =
                 IF \E n \in 1 .. Len(RefTerms) :
                        RefContains(RefSecond(probe.text), RefTerms[n])
                 THEN "Match"
                 ELSE "NoMatch"

\* The field "aB" was found to contain the term "Ab".
C15_Witness ==
    /\ args.search = << "A", "b" >>
    /\ probe = [text |-> << "b", " ", "a", "B", " " >>, verdict |-> "Match"]

\* C16: when the only matching attempt is call number TargetCall of slot 0,
\* the search ends with main receiving slot 0 and no other slot; each failed
\* attempt of worker 0 is counted before its next attempt begins, so when
\* worker 0's test matches the counter is at least TargetCall - 1, and the
\* matching attempt adds nothing to it.
C16_ScriptedWinner ==
    /\ <>(worker = 0 /\ exit = "ok")
    /\ [](worker \in {NoWorker, 0})
    /\ [](Finders \subseteq {0})
    /\ [](pc[0] = "Generating" => counter >= stubCalls[0])
    /\ [](matchedKey[0] # None =>
            stubCalls[0] = TargetCall /\ counter >= TargetCall - 1)
    /\ [][pc[0] \in PastFiles => pc'[0] \in PastFiles]_vars

\* Worker 0 matched at its scripted call after its earlier attempts were
\* counted, main received slot 0, and no attempt of another worker had been
\* counted: the counter is exactly TargetCall - 1.
C16_Witness ==
    /\ worker = 0
    /\ matchedKey[0] = "k1"
    /\ stubCalls[0] = TargetCall
    /\ counter = TargetCall - 1

Senders == { sent[n] : n \in 1 .. Len(sent) }

\* C17 as stated: a worker writes the flag before it sends, so whenever the
\* channel holds an index, or main has received one, the flag is true.
C17_FlagBeforeSend ==
    (chan # << >> \/ worker # NoWorker) => finished

\* C17 amended: a worker that matched sends its index first and writes the
\* flag after it: between the two steps its index is on the channel (or
\* already with main) while it has not written, and whenever the flag is true
\* the worker that wrote it had sent before.
C17_SendBeforeFlag ==
    /\ \A w \in Workers :
          /\ pc[w] = "Sending" => (w \notin Senders /\ writes[w] = 0)
          /\ pc[w] = "Signalling" => (w \in Senders /\ writes[w] = 0)
          /\ writes[w] > 0 => w \in Senders
    /\ finished => sent # << >>

\* Main has received the winner's index and copied its private key while
\* the winner has not yet written the flag, which is still false.
C17_Witness ==
    /\ worker \in Workers
    /\ pc[worker] = "Signalling"
    /\ cpc = "CopyPublic"
    /\ ~finished

\* C18: whenever a worker is at the top of its loop, about to generate, or
\* counting an attempt, neither file of its slot exists: both were deleted
\* after the test that did not match.  The text a test reads is the one the
\* generation just before it left in a clean slot, and a worker whose
\* deletion failed has ended and makes no further attempt.
C18_SlotClean ==
    /\ [](\A w \in Workers :
            pc[w] \in {"Checking", "Generating", "Reporting", "Locked"}
                => files[SlotOf(w)] = EmptySlot)
    /\ [][\A w \in Workers :
            (pc[w] # "Testing" /\ pc'[w] = "Testing")
                => pc[w] = "Generating" /\ files[SlotOf(w)] = EmptySlot]_vars
    /\ [][\A w \in Workers :
            pc[w] = "Panicked" => pc'[w] = "Panicked"]_vars

\* One worker's removal of its private key failed and the file is left
\* behind in its slot; the other worker, whose attempt was deleted and
\* counted, is about to generate into its clean slot again.
C18_Witness ==
    \E w, v \in Workers :
        /\ pc[w] = "Panicked"
        /\ files[SlotOf(w)].priv # NoFile
        /\ files[SlotOf(w)].pub = NoFile
        /\ pc[v] = "Generating"
        /\ files[SlotOf(v)] = EmptySlot
        /\ counter >= 1

\* A worker between its match and its return.
Delivering(w) == pc[w] \in {"Sending", "Signalling"}

C20_RemovedAfterAllStopped ==
    /\ [](workspace = "removed" => \A w \in Workers : pc[w] = "Stopped")
    /\ [][workspace = "removed" => (pc' = pc /\ files' = files)]_vars

====
